---- MODULE Spec2Model ----
(***************************************************************************)
(* Model of src/src/strlike.rs: the StrLike / StrLikeMut conversion        *)
(* contracts and their three instantiations ([T], str, CStr).              *)
(*                                                                         *)
(* Memory is one caller-owned buffer `data`.  A reference is a fat pointer *)
(* (type tag, offset, length, mutability) into that buffer; the contents   *)
(* seen through a reference are read from the buffer at the time of the    *)
(* read, so a write through one reference is seen through every alias.     *)
(* The conversions of the source are reinterpretations of fat pointers     *)
(* (mem::transmute, as_bytes, to_bytes_with_nul) guarded by the standard   *)
(* library's validators (from_utf8, CStr::from_bytes_with_nul), which are  *)
(* modelled byte by byte.                                                  *)
(***************************************************************************)
EXTENDS Integers, Sequences, FiniteSets, TLC

VARIABLES
    kind,    \* the instantiation in use: "slice" ([T]), "str" or "cstr"
    data,    \* the caller's backing buffer
    val,     \* the String-Like Value reference the caller holds, or NoRef
    proj,    \* the data projection obtained from to_data / to_data_mut, or NoRef
    res,     \* the Result of the last checked reconstruction
    op,      \* the last operation performed
    arg,     \* what the last reconstruction was given: "buffer" or "projection"
    writes,  \* number of caller writes made through mutable projections
    d1,      \* concatenation scenario: first backing data
    d2,      \* concatenation scenario: second backing data
    cat,     \* concatenation scenario: owned data d1 ++ d2, once pushed
    r1,      \* concatenation scenario: from_data(d1)
    r2,      \* concatenation scenario: from_data(d2)
    r12,     \* concatenation scenario: from_data(cat)
    cstep    \* concatenation scenario: steps done, as a set

vars == <<kind, data, val, proj, res, op, arg, writes, d1, d2, cat, r1, r2, r12, cstep>>

-----------------------------------------------------------------------------
(* Bounds *)

\* Longest backing data enumerated exhaustively.
MaxLen == 3
\* Caller writes through a mutable projection explored per behaviour.
MaxWrites == 1
\* Longest part enumerated exhaustively in the concatenation scenario.
MaxPart == 2

\* Byte alphabet: NUL, 'a', continuation bytes 0x80 and 0xA0, and the lead
\* bytes 0xC2 (2-byte) and 0xE0 (3-byte).
Bytes == {0, 97, 128, 160, 194, 224}

\* Smaller alphabet for the two-input concatenation scenario.
PartBytes == {0, 97, 160, 194}

SeqsUpTo(S, n) == UNION {[1..k -> S] : k \in 0..n}

\* Inputs named by the documentation, and edge cases of the validators that
\* lie outside the exhaustive alphabet.
Hello == <<104, 101, 108, 108, 111>>
Abc0 == <<97, 98, 99, 0>>
Abc == <<97, 98, 99>>
Ab0c0 == <<97, 98, 0, 99, 0>>
FFFE == <<255, 254>>
Examples ==
    { Hello, Abc0, Abc, Ab0c0, FFFE,
      <<192, 128>>,             \* overlong 2-byte form of NUL
      <<237, 160, 128>>,        \* surrogate U+D800
      <<237, 159, 191>>,        \* U+D7FF
      <<244, 143, 191, 191>>,   \* U+10FFFF
      <<244, 144, 128, 128>>,   \* above U+10FFFF
      <<240, 144, 128, 128>>,   \* U+10000
      <<240, 128, 128, 128>>,   \* overlong 4-byte form
      <<245, 128, 128, 128>> }  \* invalid lead byte

Inputs == SeqsUpTo(Bytes, MaxLen) \cup Examples

Kinds == {"slice", "str", "cstr"}

-----------------------------------------------------------------------------
(* References and results *)

NoRef == [ty |-> "none", ptr |-> 0, len |-> 0, mut |-> FALSE]

\* A fat pointer: `len` elements starting at offset `ptr` of the buffer.
Ref(ty, ptr, len, mut) == [ty |-> ty, ptr |-> ptr, len |-> len, mut |-> mut]

\* The contents of buffer `buf` seen through reference `r`.
View(buf, r) == SubSeq(buf, r.ptr + 1, r.ptr + r.len)

\* A shared reborrow (&*r) of a reference.
Shared(r) == [r EXCEPT !.mut = FALSE]

\* A reference to the whole of buffer `buf` as backing data.
Whole(buf, mut) == Ref("data", 0, Len(buf), mut)

\* mem::transmute of a fat pointer: same address, same length, new type.
transmute(r, ty) == Ref(ty, r.ptr, r.len, r.mut)

NoErr == [kind |-> "none", pos |-> 0, error_len |-> 0]

Ok(r) == [tag |-> "Ok", ref |-> r, err |-> NoErr]
Err(e) == [tag |-> "Err", ref |-> NoRef, err |-> e]
NoRes == [tag |-> "none", ref |-> NoRef, err |-> NoErr]

-----------------------------------------------------------------------------
(* std::str::from_utf8 *)

\* Mutant: the index reported is the end of the offending sequence.
Utf8ErrorAtEnd(valid_up_to, error_len) ==
    [kind |-> "Utf8Error", pos |-> valid_up_to + error_len, error_len |-> error_len]

\* Utf8Error { valid_up_to, error_len }; error_len 0 stands for None.
Utf8Error(valid_up_to, error_len) ==
    [kind |-> "Utf8Error", pos |-> valid_up_to, error_len |-> error_len]

UTF8_CHAR_WIDTH(b) ==
    IF b < 128 THEN 1
    ELSE IF b < 194 THEN 0
    ELSE IF b < 224 THEN 2
    ELSE IF b < 240 THEN 3
    ELSE IF b < 245 THEN 4
    ELSE 0

\* x & !CONT_MASK == TAG_CONT_U8
IsCont(b) == b \in 128..191

\* Second byte of a 3-byte sequence, by lead byte.
Second3(first, b) ==
    \/ first = 224 /\ b \in 160..191
    \/ first \in 225..236 /\ b \in 128..191
    \/ first = 237 /\ b \in 128..159
    \/ first \in 238..239 /\ b \in 128..191

\* Second byte of a 4-byte sequence, by lead byte.
Second4(first, b) ==
    \/ first = 240 /\ b \in 144..191
    \/ first \in 241..243 /\ b \in 128..191
    \/ first = 244 /\ b \in 128..143

RECURSIVE run_utf8_validation_from(_, _)
run_utf8_validation_from(v, index) ==
    IF index >= Len(v) THEN NoErr
    ELSE
      LET first == v[index + 1]
          w == UTF8_CHAR_WIDTH(first)
          Has(k) == index + k < Len(v)
          Nxt(k) == v[index + 1 + k]
      IN
      IF first < 128 THEN run_utf8_validation_from(v, index + 1)
      ELSE IF w = 2 THEN
        IF ~Has(1) THEN Utf8Error(index, 0)
        ELSE IF ~IsCont(Nxt(1)) THEN Utf8Error(index, 1)
        ELSE run_utf8_validation_from(v, index + 2)
      ELSE IF w = 3 THEN
        IF ~Has(1) THEN Utf8Error(index, 0)
        ELSE IF ~Second3(first, Nxt(1)) THEN Utf8Error(index, 1)
        ELSE IF ~Has(2) THEN Utf8Error(index, 0)
        ELSE IF ~IsCont(Nxt(2)) THEN Utf8Error(index, 2)
        ELSE run_utf8_validation_from(v, index + 3)
      ELSE IF w = 4 THEN
        IF ~Has(1) THEN Utf8Error(index, 0)
        ELSE IF ~Second4(first, Nxt(1)) THEN Utf8Error(index, 1)
        ELSE IF ~Has(2) THEN Utf8Error(index, 0)
        ELSE IF ~IsCont(Nxt(2)) THEN Utf8Error(index, 2)
        ELSE IF ~Has(3) THEN Utf8Error(index, 0)
        ELSE IF ~IsCont(Nxt(3)) THEN Utf8Error(index, 3)
        ELSE run_utf8_validation_from(v, index + 4)
      ELSE Utf8Error(index, 1)

\* Mutant: continuation bytes are not inspected.
from_utf8_lead_only(d, bytes) ==
    LET Bad == {i \in 1..Len(bytes) : UTF8_CHAR_WIDTH(bytes[i]) = 0 /\ ~IsCont(bytes[i])}
    IN IF Bad = {} THEN Ok(transmute(d, "str"))
       ELSE Err(Utf8Error((CHOOSE i \in Bad : \A j \in Bad : i <= j) - 1, 1))

\* from_utf8(v): validate, then reinterpret the byte slice as a str.
from_utf8(d, bytes) ==
    LET e == run_utf8_validation_from(bytes, 0)
    IN IF e.kind = "none" THEN Ok(transmute(d, "str")) ELSE Err(e)

\* from_utf8_unchecked(v): reinterpret without validating.
from_utf8_unchecked(d) == transmute(d, "str")

\* str::as_bytes
as_bytes(s) == transmute(s, "data")

-----------------------------------------------------------------------------
(* std::ffi::CStr *)

\* memchr(0, bytes): offset of the first NUL, or -1.
memchr0(bytes) ==
    LET Z == {i \in 1..Len(bytes) : bytes[i] = 0}
    IN IF Z = {} THEN -1 ELSE (CHOOSE i \in Z : \A j \in Z : i <= j) - 1

InteriorNul(pos) == [kind |-> "InteriorNul", pos |-> pos, error_len |-> 0]
NotNulTerminated == [kind |-> "NotNulTerminated", pos |-> 0, error_len |-> 0]

\* Mutant: only the final byte is inspected.
from_bytes_with_nul_last_only(d, bytes) ==
    IF Len(bytes) > 0 /\ bytes[Len(bytes)] = 0
    THEN Ok(transmute(d, "cstr"))
    ELSE Err(NotNulTerminated)

from_bytes_with_nul(d, bytes) ==
    LET nul_pos == memchr0(bytes)
    IN IF nul_pos >= 0
       THEN IF nul_pos + 1 # Len(bytes)
            THEN Err(InteriorNul(nul_pos))
            ELSE Ok(transmute(d, "cstr"))
       ELSE Err(NotNulTerminated)

from_bytes_with_nul_unchecked(d) == transmute(d, "cstr")

\* Mutant: the projection leaves the terminator out (CStr::to_bytes).
to_bytes(s) == Ref("data", s.ptr, s.len - 1, s.mut)

\* CStr::to_bytes_with_nul: the inner bytes, terminator included.
to_bytes_with_nul(s) == transmute(s, "data")

-----------------------------------------------------------------------------
(* impl StrLike for [T], str, CStr; impl StrLikeMut for [T], str *)

\* Types that implement StrLikeMut.
MutKinds == {"slice", "str"}

\* Mutant: CStr marked as well.
DataConcatAll(k) == k \in {"str", "slice", "cstr"}

\* unsafe impl DataConcat for str, [T]
DataConcat(k) == k \in {"str", "slice"}

slice_to_data(s) == s

\* Mutant: an empty slice is rejected.
slice_from_data_nonempty(d) ==
    IF d.len = 0 THEN Err(NoErr) ELSE Ok(d)

slice_from_data(d) == Ok(d)
slice_from_data_unchecked(d) == d
slice_to_data_mut(s) == s
slice_from_data_mut(d) == Ok(d)
slice_from_data_mut_unchecked(d) == d

str_to_data(s) == as_bytes(s)
str_from_data(d, bytes) == from_utf8(d, bytes)
str_from_data_unchecked(d) == from_utf8_unchecked(d)
str_to_data_mut(s) == transmute(s, "data")

\* Mutant: the validation before the transmute is left out.
str_from_data_mut_novalidate(d, bytes) == Ok(transmute(d, "str"))

str_from_data_mut(d, bytes) ==
    LET r == from_utf8(Shared(d), bytes)
    IN IF r.tag = "Err" THEN r ELSE Ok(transmute(d, "str"))

str_from_data_mut_unchecked(d) == transmute(d, "str")

cstr_to_data(s) == to_bytes_with_nul(s)
cstr_from_data(d, bytes) == from_bytes_with_nul(d, bytes)

\* Mutant: the value is rebuilt without its terminator.
cstr_from_data_unchecked_short(d) == Ref("cstr", d.ptr, d.len - 1, d.mut)

cstr_from_data_unchecked(d) == from_bytes_with_nul_unchecked(d)

\* Trait dispatch on the implementing type.
to_data(k, s) ==
    CASE k = "slice" -> slice_to_data(s)
      [] k = "str" -> str_to_data(s)
      [] k = "cstr" -> cstr_to_data(s)

from_data(k, d, bytes) ==
    CASE k = "slice" -> slice_from_data(d)
      [] k = "str" -> str_from_data(d, bytes)
      [] k = "cstr" -> cstr_from_data(d, bytes)

from_data_unchecked(k, d) ==
    CASE k = "slice" -> slice_from_data_unchecked(d)
      [] k = "str" -> str_from_data_unchecked(d)
      [] k = "cstr" -> cstr_from_data_unchecked(d)

to_data_mut(k, s) ==
    CASE k = "slice" -> slice_to_data_mut(s)
      [] k = "str" -> str_to_data_mut(s)

from_data_mut(k, d, bytes) ==
    CASE k = "slice" -> slice_from_data_mut(d)
      [] k = "str" -> str_from_data_mut(d, bytes)

from_data_mut_unchecked(k, d) ==
    CASE k = "slice" -> slice_from_data_mut_unchecked(d)
      [] k = "str" -> str_from_data_mut_unchecked(d)

-----------------------------------------------------------------------------
(* Validity predicates, stated independently of the validators *)

Encode(cp) ==
    IF cp < 128 THEN <<cp>>
    ELSE IF cp < 2048 THEN <<192 + (cp \div 64), 128 + (cp % 64)>>
    ELSE IF cp < 65536
      THEN <<224 + (cp \div 4096), 128 + ((cp \div 64) % 64), 128 + (cp % 64)>>
    ELSE <<240 + (cp \div 262144), 128 + ((cp \div 4096) % 64),
           128 + ((cp \div 64) % 64), 128 + (cp % 64)>>

\* A Unicode scalar value: a code point that is not a surrogate.
IsScalar(cp) == cp \in 0..1114111 /\ cp \notin 55296..57343

\* The payload bits of a chunk of 1 to 4 bytes read as one encoded character.
PayloadBits(c) ==
    CASE Len(c) = 1 -> c[1]
      [] Len(c) = 2 -> (c[1] % 32) * 64 + (c[2] % 64)
      [] Len(c) = 3 -> (c[1] % 16) * 4096 + (c[2] % 64) * 64 + (c[3] % 64)
      [] Len(c) = 4 -> (c[1] % 8) * 262144 + (c[2] % 64) * 4096
                        + (c[3] % 64) * 64 + (c[4] % 64)

\* c is the UTF-8 encoding of some Unicode scalar value.
IsEncodedScalar(c) ==
    LET cp == PayloadBits(c) IN IsScalar(cp) /\ Encode(cp) = c

\* s is a concatenation of encoded scalar values.
RECURSIVE WellFormedUtf8(_)
WellFormedUtf8(s) ==
    \/ s = <<>>
    \/ \E k \in 1..(IF Len(s) < 4 THEN Len(s) ELSE 4) :
          /\ IsEncodedScalar(SubSeq(s, 1, k))
          /\ WellFormedUtf8(SubSeq(s, k + 1, Len(s)))

\* Exactly one null byte, at the final position.
NulTerminated(s) ==
    /\ Len(s) > 0
    /\ s[Len(s)] = 0
    /\ \A i \in 1..(Len(s) - 1) : s[i] # 0

\* The validity predicate of each instantiation.
ValidFor(k, s) ==
    CASE k = "slice" -> TRUE
      [] k = "str" -> WellFormedUtf8(s)
      [] k = "cstr" -> NulTerminated(s)

-----------------------------------------------------------------------------
(* The caller: operations on one buffer *)

\* The data reference handed to a reconstruction: the projection when one is
\* held, the whole buffer otherwise.
Arg == IF proj # NoRef THEN proj ELSE Whole(data, TRUE)

ArgKind == IF proj # NoRef THEN "projection" ELSE "buffer"

\* A reconstruction may start from the bare buffer or from a projection.
CanReconstruct == proj # NoRef \/ val = NoRef

ConcatIdle ==
    /\ d1 = <<>> /\ d2 = <<>> /\ cat = <<>>
    /\ r1 = NoRes /\ r2 = NoRes /\ r12 = NoRes /\ cstep = {}

Init ==
    /\ kind \in Kinds
    /\ data \in Inputs
    /\ val = NoRef
    /\ proj = NoRef
    /\ res = NoRes
    /\ op = "init"
    /\ arg = "none"
    /\ writes = 0
    /\ ConcatIdle

FromData ==
    /\ CanReconstruct
    /\ LET d == Shared(Arg)
           r == from_data(kind, d, View(data, d))
       IN /\ res' = r
          /\ val' = IF r.tag = "Ok" THEN r.ref ELSE val
          /\ proj' = IF r.tag = "Ok" THEN NoRef ELSE proj
    /\ op' = "from_data"
    /\ arg' = ArgKind
    /\ UNCHANGED <<kind, data, writes, d1, d2, cat, r1, r2, r12, cstep>>

FromDataMut ==
    /\ kind \in MutKinds
    /\ CanReconstruct
    /\ Arg.mut
    /\ LET d == Arg
           r == from_data_mut(kind, d, View(data, d))
       IN /\ res' = r
          /\ val' = IF r.tag = "Ok" THEN r.ref ELSE val
          /\ proj' = IF r.tag = "Ok" THEN NoRef ELSE proj
    /\ op' = "from_data_mut"
    /\ arg' = ArgKind
    /\ UNCHANGED <<kind, data, writes, d1, d2, cat, r1, r2, r12, cstep>>

\* Unsafe: the caller guarantees the validity predicate.  A call on invalid
\* data is undefined behaviour and lies outside the model; every property of
\* the unchecked reconstructions is stated for valid data only.
FromDataUnchecked ==
    /\ CanReconstruct
    /\ ValidFor(kind, View(data, Arg))
    /\ val' = from_data_unchecked(kind, Shared(Arg))
    /\ proj' = NoRef
    /\ op' = "from_data_unchecked"
    /\ arg' = ArgKind
    /\ UNCHANGED <<kind, data, res, writes, d1, d2, cat, r1, r2, r12, cstep>>

FromDataMutUnchecked ==
    /\ kind \in MutKinds
    /\ CanReconstruct
    /\ Arg.mut
    /\ ValidFor(kind, View(data, Arg))
    /\ val' = from_data_mut_unchecked(kind, Arg)
    /\ proj' = NoRef
    /\ op' = "from_data_mut_unchecked"
    /\ arg' = ArgKind
    /\ UNCHANGED <<kind, data, res, writes, d1, d2, cat, r1, r2, r12, cstep>>

ToData ==
    /\ val # NoRef
    /\ proj = NoRef
    /\ proj' = to_data(kind, Shared(val))
    /\ op' = "to_data"
    /\ UNCHANGED <<kind, data, val, res, arg, writes, d1, d2, cat, r1, r2, r12, cstep>>

ToDataMut ==
    /\ kind \in MutKinds
    /\ val # NoRef
    /\ val.mut
    /\ proj = NoRef
    /\ proj' = to_data_mut(kind, val)
    /\ op' = "to_data_mut"
    /\ UNCHANGED <<kind, data, val, res, arg, writes, d1, d2, cat, r1, r2, r12, cstep>>

\* The caller stores byte b at index i of the mutable projection.
Write ==
    /\ proj # NoRef
    /\ proj.mut
    /\ writes < MaxWrites
    /\ \E i \in 1..proj.len, b \in Bytes :
          data' = [data EXCEPT ![proj.ptr + i] = b]
    /\ writes' = writes + 1
    /\ op' = "write"
    /\ UNCHANGED <<kind, val, proj, res, arg, d1, d2, cat, r1, r2, r12, cstep>>

\* The projection's borrow ends; the value it was taken from is usable again.
Release ==
    /\ proj # NoRef
    /\ proj' = NoRef
    /\ op' = "release"
    /\ UNCHANGED <<kind, data, val, res, arg, writes, d1, d2, cat, r1, r2, r12, cstep>>

\* The value reference goes out of scope.
Drop ==
    /\ val # NoRef
    /\ proj = NoRef
    /\ val' = NoRef
    /\ op' = "drop"
    /\ UNCHANGED <<kind, data, proj, res, arg, writes, d1, d2, cat, r1, r2, r12, cstep>>

Next ==
    \/ FromData
    \/ FromDataMut
    \/ FromDataUnchecked
    \/ FromDataMutUnchecked
    \/ ToData
    \/ ToDataMut
    \/ Write
    \/ Release
    \/ Drop

Spec == Init /\ [][Next]_vars

-----------------------------------------------------------------------------
(* The concatenation scenario: two backing data and their concatenation *)

MainIdle ==
    /\ data = <<>> /\ val = NoRef /\ proj = NoRef /\ res = NoRes
    /\ op = "init" /\ arg = "none" /\ writes = 0

Parts == SeqsUpTo(PartBytes, MaxPart)

InitConcat ==
    /\ kind \in Kinds
    /\ d1 \in Parts
    /\ d2 \in Parts
    /\ cat = <<>>
    /\ r1 = NoRes /\ r2 = NoRes /\ r12 = NoRes
    /\ cstep = {}
    /\ MainIdle

ConvertFirst ==
    /\ "first" \notin cstep
    /\ r1' = from_data(kind, Whole(d1, FALSE), d1)
    /\ cstep' = cstep \cup {"first"}
    /\ UNCHANGED <<kind, data, val, proj, res, op, arg, writes, d1, d2, cat, r2, r12>>

ConvertSecond ==
    /\ "second" \notin cstep
    /\ r2' = from_data(kind, Whole(d2, FALSE), d2)
    /\ cstep' = cstep \cup {"second"}
    /\ UNCHANGED <<kind, data, val, proj, res, op, arg, writes, d1, d2, cat, r1, r12>>

\* OwnedData (Vec): push d1 then d2 onto an empty owned buffer, and
\* reconstruct from the result.
ConvertConcat ==
    /\ "cat" \notin cstep
    /\ cat' = d1 \o d2
    /\ r12' = from_data(kind, Whole(cat', FALSE), cat')
    /\ cstep' = cstep \cup {"cat"}
    /\ UNCHANGED <<kind, data, val, proj, res, op, arg, writes, d1, d2, r1, r2>>

NextConcat ==
    \/ ConvertFirst
    \/ ConvertSecond
    \/ ConvertConcat

SpecConcat == InitConcat /\ [][NextConcat]_vars

-----------------------------------------------------------------------------
(* Properties *)

Checked == {"from_data", "from_data_mut"}
Unchecked == {"from_data_unchecked", "from_data_mut_unchecked"}

\* The bytes the last checked reconstruction examined, when it failed (a
\* failed reconstruction leaves the caller's references as they were).
Examined == View(data, Arg)

\* C1: round-trip identity.  For every instantiation, from_data on data that
\* satisfies the validity predicate returns Ok(v) (it fails only on invalid
\* data), and to_data(v) is the very data it was given: same start, same
\* length, same contents (for CStr the trailing null included).
C1_RoundTrip ==
    /\ (op = "from_data" /\ res.tag = "Err") => ~ValidFor(kind, Examined)
    /\ (op = "from_data" /\ arg = "buffer" /\ ValidFor(kind, data))
          => res.tag = "Ok" /\ val = res.ref
    /\ (op = "to_data" /\ res.tag = "Ok" /\ res.ref = val /\ ~val.mut)
          => /\ proj = Whole(data, FALSE)
             /\ View(data, proj) = data

C1_Witness ==
    /\ kind = "cstr" /\ data = Abc0
    /\ op = "to_data" /\ res.tag = "Ok" /\ res.ref = val
    /\ View(data, proj) = Abc0

\* C2: for CStr, from_data returns Ok exactly when the data holds exactly one
\* null byte and that byte is last; empty data, b"abc" and b"ab\0c\0" give
\* Err, and b"abc\0" gives Ok of a value whose data has length 4.
C2_CStrFromData ==
    (kind = "cstr" /\ op = "from_data") =>
        /\ res.tag = "Ok" <=> NulTerminated(IF res.tag = "Ok" THEN data ELSE Examined)
        /\ data \in {<<>>, Abc, Ab0c0} => res.tag = "Err"
        /\ data = Abc0 =>
              /\ res.tag = "Ok"
              /\ Len(View(data, to_data(kind, Shared(res.ref)))) = 4

C2_Witness ==
    /\ kind = "cstr" /\ op = "from_data" /\ data = Ab0c0
    /\ res = Err(InteriorNul(2))

\* C3: for str, from_data returns Ok exactly when the bytes are well-formed
\* UTF-8: b"hello" gives Ok("hello"), the empty sequence gives Ok, and
\* [0xFF, 0xFE] gives Err.
C3_StrFromData ==
    (kind = "str" /\ op = "from_data") =>
        /\ res.tag = "Ok" <=> WellFormedUtf8(IF res.tag = "Ok" THEN data ELSE Examined)
        /\ data = Hello => res.tag = "Ok" /\ View(data, res.ref) = Hello
        /\ data = <<>> => res.tag = "Ok"
        /\ data = FFFE => res.tag = "Err"

C3_Witness ==
    /\ kind = "str" /\ op = "from_data" /\ data = Hello
    /\ res.tag = "Ok" /\ View(data, val) = Hello

\* C4: for [T], from_data and from_data_mut never return Err: the result is
\* Ok of a value equal to the input, the empty input included.
C4_SliceNeverErr ==
    (kind = "slice" /\ op \in Checked) =>
        /\ res.tag = "Ok"
        /\ val = res.ref
        /\ res.ref.len = Len(data)
        /\ View(data, res.ref) = data

C4_Witness ==
    /\ kind = "slice" /\ op = "from_data_mut" /\ data = <<>>
    /\ res.tag = "Ok"

\* C5: mutable round trip for str.  After the caller has written through a
\* to_data_mut projection of a text value, from_data_mut on that data returns
\* Ok exactly when the updated bytes are well-formed UTF-8, and then the value
\* is a mutable reference whose bytes are the updated bytes; it returns Err
\* when the updated bytes are not well-formed.
C5_MutRoundTrip ==
    (kind = "str" /\ op = "from_data_mut" /\ arg = "projection" /\ writes > 0) =>
        /\ res.tag = "Ok" <=> WellFormedUtf8(data)
        /\ res.tag = "Ok" =>
              /\ val = res.ref
              /\ val.mut
              /\ proj = NoRef
              /\ View(data, val) = data
        /\ res.tag = "Err" => proj = Whole(data, TRUE)

C5_Witness ==
    /\ kind = "str" /\ op = "from_data_mut" /\ arg = "projection"
    /\ writes > 0 /\ data = <<194, 160>>
    /\ res.tag = "Ok" /\ View(data, val) = <<194, 160>>

\* A value reference the caller can use: held, and not lent out to a
\* projection.
Live == val # NoRef /\ proj = NoRef

\* C6 as stated: in every reachable state, whatever the caller wrote through
\* the mutable data projection, a live value refers to data that satisfies
\* its validity predicate.
C6_AlwaysValid == Live => ValidFor(kind, View(data, val))

\* A held value reference, usable or lent out, whose data violates the
\* validity predicate.
Broken == val # NoRef /\ ~ValidFor(kind, View(data, val))

\* C6 amended: the data of a value reference satisfies the validity
\* predicate when from_data, from_data_mut or an unchecked reconstruction
\* (called on valid data) returns it, and keeps satisfying it across every
\* operation except a caller write through the mutable data projection: only
\* such a write makes a held value's data invalid, and only for str: a CStr
\* value, which has no mutable projection, never becomes invalid.
\* The formula is (Broken' /\ ~Broken) => write, with the cheap cases first:
\* a step that changes neither the data nor the value held cannot break it.
C6_ValidUnlessCallerWrote ==
    [][ \/ op' = "write" /\ proj.mut /\ kind = "str"
        \/ UNCHANGED <<kind, data, val>>
        \/ ~Broken'
        \/ Broken ]_vars

C6_Witness ==
    /\ kind = "str" /\ Live /\ val.mut /\ writes > 0 /\ op = "release"
    /\ data = <<194, 160>>
    /\ ValidFor(kind, View(data, val))

\* Same value: same type, same start, same length (hence same contents).
SameValue(a, b) == a.ty = b.ty /\ a.ptr = b.ptr /\ a.len = b.len

\* C7: unchecked reconstruction agrees with the original value.  Applied to
\* the projection of a value v it yields v again (from_data_unchecked on
\* to_data(v), from_data_mut_unchecked on to_data_mut(v)), and on any valid
\* data its result is the Ok payload of the checked reconstruction.
C7_UncheckedAgrees ==
    [][ op' \in Unchecked =>
          /\ (val # NoRef /\ proj # NoRef) =>
                /\ SameValue(val', val)
                /\ View(data', val') = View(data, val)
                /\ op' = "from_data_mut_unchecked" => val' = val
          /\ op' = "from_data_unchecked" =>
                Ok(val') = from_data(kind, Shared(Arg), View(data, Arg))
          /\ op' = "from_data_mut_unchecked" =>
                Ok(val') = from_data_mut(kind, Arg, View(data, Arg)) ]_vars

C7_Witness ==
    /\ kind = "cstr" /\ op = "from_data_unchecked" /\ arg = "projection"
    /\ data = Abc0 /\ View(data, val) = Abc0

\* Concatenation of two values: the owned value holding the elements of a
\* followed by those of b; a null-terminated string holds the bytes of both
\* before one terminator.
ValueConcat(k, a, b) ==
    IF k = "cstr"
    THEN SubSeq(a, 1, Len(a) - 1) \o SubSeq(b, 1, Len(b) - 1) \o <<0>>
    ELSE a \o b

\* C8: for the types marked DataConcat (str and [T]) and any two values a
\* and b, to_data(a ++ b) = to_data(a) ++ to_data(b); and for valid data d1,
\* d2 the concatenation d1 ++ d2 is valid, with from_data(d1 ++ d2) Ok of the
\* concatenation of the two values.
C8_DataConcat ==
    (DataConcat(kind) /\ r1.tag = "Ok" /\ r2.tag = "Ok") =>
        LET a == View(d1, r1.ref)
            b == View(d2, r2.ref)
            ab == ValueConcat(kind, a, b)
            v == Ref(r1.ref.ty, 0, Len(ab), FALSE)
        IN /\ View(ab, to_data(kind, v))
                = View(d1, to_data(kind, r1.ref)) \o View(d2, to_data(kind, r2.ref))
           /\ "cat" \in cstep =>
                 /\ r12.tag = "Ok"
                 /\ View(cat, r12.ref) = ab

C8_Witness ==
    /\ kind = "str" /\ cstep = {"first", "second", "cat"}
    /\ d1 = <<97>> /\ d2 = <<194, 160>>
    /\ r12.tag = "Ok" /\ View(cat, r12.ref) = <<97, 194, 160>>

\* C9: a checked reconstruction leaves the backing data as it was, Ok or
\* Err; and one that follows a failed one, the data untouched in between,
\* fails again with the same error.
C9_FrameAndRetry ==
    [][ op' \in Checked =>
          /\ data' = data
          /\ (op \in Checked /\ res.tag = "Err") => res' = res ]_vars

C9_Witness ==
    /\ kind = "str" /\ op = "from_data_mut" /\ data = FFFE
    /\ res = Err(Utf8Error(0, 1))

\* Length of the longest well-formed prefix.
LongestValidPrefix(s) ==
    LET P == {k \in 0..Len(s) : WellFormedUtf8(SubSeq(s, 1, k))}
    IN CHOOSE k \in P : \A j \in P : j <= k

\* C10: for str, the error of a failed from_data / from_data_mut reports the
\* length of the longest well-formed prefix of the data (0 for [0xFF, 0xFE]):
\* every byte before the reported index belongs to a valid encoding.
C10_ValidUpTo ==
    (kind = "str" /\ op \in Checked /\ res.tag = "Err") =>
        /\ res.err.kind = "Utf8Error"
        /\ res.err.pos = LongestValidPrefix(Examined)
        /\ WellFormedUtf8(SubSeq(Examined, 1, res.err.pos))
        /\ res.err.pos < Len(Examined)
        /\ Examined = FFFE => res.err.pos = 0

C10_Witness ==
    /\ kind = "str" /\ op = "from_data" /\ data = <<97, 194, 97>>
    /\ res = Err(Utf8Error(1, 1))

====
